---------------------------- MODULE Spec2Model ----------------------------
(***************************************************************************)
(* Model of src/1.2.py: the transaction demonstrations run against the     *)
(* table mutations_foncieres of a PostgreSQL store through psycopg2.       *)
(*                                                                         *)
(* The store is modelled as PostgreSQL behaves for the statements the      *)
(* program issues: a committed table, and per session an isolation level,  *)
(* a snapshot (taken by the first statement of a repeatable-read           *)
(* transaction), the uncommitted writes of the open transaction, and the   *)
(* rows a concurrent transaction committed since the snapshot.  A          *)
(* read-committed statement sees the committed table of the moment it      *)
(* executes; a repeatable-read statement sees the snapshot.  An UPDATE of  *)
(* a row that another open transaction has written waits for that          *)
(* transaction; at repeatable-read it raises SerializationFailure when the *)
(* row was changed by a transaction that committed after the snapshot.     *)
(*                                                                         *)
(* Threads interleave freely: time.sleep delays a thread and orders        *)
(* nothing, so a sleep is no step of its own.                              *)
(*                                                                         *)
(* Spec is the run of the main block: the three demonstrations, the bulk   *)
(* price adjustment test and the two archive tests.  SpecBulk is the bulk  *)
(* price adjustment test alone, over more percentages and tables.          *)
(* SpecLive is the three demonstrations under fair scheduling of the       *)
(* threads.                                                                *)
(***************************************************************************)
EXTENDS Integers, FiniteSets, Sequences, TLC

(***************************************************************************)
(* Bounds of the model.                                                    *)
(***************************************************************************)
\* rows of mutations_foncieres before the program starts
NumRows == 3
\* errors (connection failures, store errors) raised during one run
MaxFaults == 1

(***************************************************************************)
(* Program constants.                                                      *)
(***************************************************************************)
\* threading.Barrier(2)
\* (variant: a barrier of one party more than the threads that wait on it)
PartiesMut == 2 + 1
Parties == 2
\* demo_phantom_read: test_value
test_value == 9999999
\* demo_phantom_read: test_commune
test_commune == "01053"
\* demo_serialization_failure: test_code_commune
test_code_commune == "01344"
\* tx2_writer: new_value = initial_details[1] + 10000
\* (variant: the writer writes the value back unchanged)
NewValueMut(v) == v
new_value(v) == v + 10000
\* the date of the row the inserters insert, '2024-01-01'
sale_date == 20240101
\* __main__: archive_date_test_1 = '2017-01-10', archive_date_test_2 = '2018-01-01'
archive_date_test_1 == 20170110
archive_date_test_2 == 20180101
\* Python's None, for a value not (yet) read
None == -1

\* __main__: test_postal_code = '51200.0'
test_postal_code == "51200.0"

\* Numbers with a fraction (factors, averages) are held to four decimal
\* places, percentages to two: n percent is Percent(n), the factor 1 is Scale.
Scale == 100 * 100
Percent(n) == n * 100
\* __main__: percentage = 5.0
percentage == Percent(5)

ISOLATION_LEVEL_READ_COMMITTED == "RC"
ISOLATION_LEVEL_REPEATABLE_READ == "RR"

(***************************************************************************)
(* The table.  Ids beyond NumRows are those the two inserters can take     *)
(* from the id sequence.                                                   *)
(***************************************************************************)
MaxId == NumRows + 2
Ids == 1..MaxId
Threads == {"t1", "t2"}
Sessions == {"t1", "t2", "main"}

NoRow == [live |-> FALSE, val |-> 0, com |-> "", nom |-> "", date |-> 0, cp |-> ""]
NoTable == [id \in Ids |-> NoRow]

\* The rows the table can hold before the run.  What the program reads of a row
\* of test_commune is its valeur_fonciere and its date, of a row of
\* test_code_commune its nom_commune and its date, of a row of
\* test_postal_code its valeur_fonciere.
InitRows ==
    [live : {TRUE}, val : {5000, test_value}, com : {test_commune},
     nom : {"A"}, date : {20161231, 20170601}, cp : {""}]
    \cup
    [live : {TRUE}, val : {5000}, com : {test_code_commune},
     nom : {"A", "B"}, date : {20161231, 20170601}, cp : {""}]
    \cup
    [live : {TRUE}, val : {100}, com : {"51200"},
     nom : {"A"}, date : {20170601}, cp : {test_postal_code}]

\* The program never reads an id's value, only its identity: of the tables that
\* differ by a renaming of the ids, Init keeps the one whose rows are in this order.
RowRank(r) ==
    (IF r.cp = test_postal_code THEN 16 ELSE 0)
    + (IF r.val = test_value THEN 8 ELSE 0) + (IF r.com = test_code_commune THEN 4 ELSE 0)
    + (IF r.nom = "B" THEN 2 ELSE 0) + (IF r.date = 20170601 THEN 1 ELSE 0)

VARIABLES
    db,        \* the committed table: id -> row
    base,      \* the table before the run (never changes)
    nextId,    \* the id sequence of the table
    sess,      \* the store sessions: of thread t1, of thread t2, of the main thread
    mainpc,    \* position of the main thread
    pc,        \* position of each worker thread
    barrier,   \* number of parties that have called wait() on the scenario's barrier
    loc,       \* the workers' locals and their entries of the results dict
    g,         \* the scenario's closure variables
    arch,      \* the locals of run_archive_test_with_rollback
    bulk,      \* the locals of the main block's bulk price adjustment test
    faults     \* errors raised so far

vars == <<db, base, nextId, sess, mainpc, pc, barrier, loc, g, arch, bulk, faults>>

(***************************************************************************)
(* psycopg2 sessions over the store.                                       *)
(***************************************************************************)
ClosedSession ==
    [st |-> "closed", iso |-> "none", snap |-> NoTable,
     wset |-> {}, wrows |-> NoTable, stale |-> {}]

\* get_connection: psycopg2.connect, set_session(isolation_level), autocommit
\* (variant: set_session is not called, the session keeps no level of its own)
get_connectionMut(iso) == [ClosedSession EXCEPT !.st = "idle"]
get_connection(iso) == [ClosedSession EXCEPT !.st = "idle", !.iso = iso]

\* psycopg2 sends BEGIN before the first statement of a session that is not in
\* a transaction; a repeatable-read transaction takes its snapshot there.
\* (variant: an autocommit session, no transaction is begun)
BegunMut(se) == se
Begun(se) ==
    IF se.st = "idle"
    THEN [se EXCEPT !.st = "intrans",
                    !.snap = IF se.iso = ISOLATION_LEVEL_REPEATABLE_READ
                             THEN db ELSE NoTable]
    ELSE se

\* the table a statement of session se sees
\* (variant: a statement also sees the uncommitted writes of other sessions)
ViewMut(se) ==
    [id \in Ids |->
        IF id \in se.wset THEN se.wrows[id]
        ELSE IF \E o \in Sessions : sess[o].st = "intrans" /\ id \in sess[o].wset
        THEN sess[CHOOSE o \in Sessions :
                     sess[o].st = "intrans" /\ id \in sess[o].wset].wrows[id]
        ELSE db[id]]
View(se) ==
    [id \in Ids |->
        IF id \in se.wset THEN se.wrows[id]
        ELSE IF se.iso = ISOLATION_LEVEL_REPEATABLE_READ THEN se.snap[id]
        ELSE db[id]]

\* session se writes row r (NoRow: deletes) at id
Written(se, id, r) ==
    [se EXCEPT !.wset = @ \cup {id}, !.wrows = [@ EXCEPT ![id] = r]]

\* the committed table after session se commits
\* (variant: the commit keeps none of the writes)
CommittedMut(se) == db
Committed(se) ==
    [id \in Ids |-> IF id \in se.wset THEN se.wrows[id] ELSE db[id]]

\* the other sessions after a commit of the rows ws: an open transaction
\* remembers the rows changed under it
Overtaken(se, ws) ==
    IF se.st = "intrans" THEN [se EXCEPT !.stale = @ \cup ws] ELSE se

\* some open transaction other than s has written one of the rows ws
LockedByOther(s, ws) ==
    \E o \in Sessions \ {s} : sess[o].st = "intrans" /\ sess[o].wset \cap ws # {}

\* the normal exit of "with conn" commits the transaction of worker t, and the
\* worker's finally closes the session
CommitAndClose(t) ==
    /\ db' = Committed(sess[t])
    /\ sess' = [o \in Sessions |->
                  IF o = t THEN ClosedSession ELSE Overtaken(sess[o], sess[t].wset)]

\* a statement of an autocommit session (setup, restore, cleanup) that leaves
\* the committed table as newdb
AutocommitTo(newdb) ==
    /\ db' = newdb
    /\ sess' = [o \in Sessions |->
                  Overtaken(sess[o], {id \in Ids : newdb[id] # db[id]})]

CanFault == faults < MaxFaults

\* kind: the error raised inside the transaction function the worker called;
\* escaped: whether that error left the function as an exception (else the
\* function caught it and returned None / False); peer_begun: whether the
\* other updater's transaction was open when this one committed
LocInit ==
    [r1 |-> None, r2 |-> None, between |-> FALSE, committed |-> FALSE,
     after1 |-> FALSE, new_id |-> None, cleaned |-> FALSE,
     success |-> FALSE, kind |-> "none", escaped |-> FALSE, peer_begun |-> FALSE]

GInit == [mutation_id |-> None, initial_val |-> None, original_name |-> ""]

\* the locals of the bulk price adjustment test of the main block.  call: the
\* first call (percentage) or the second (rollback_percentage);
\* percentage_change: the argument of the running call; ret: its result;
\* rows1, rows2: the rows the UPDATE of each call updated; warned: the
\* "minimum price <= 0" warning was printed; kind, escaped: as for the workers
BulkInit(p) ==
    [percentage |-> p, call |-> 1, percentage_change |-> p,
     initial_avg_price |-> 0, updated_count |-> -1, ret |-> -1,
     restored_avg_price |-> 0, final_checked |-> FALSE, restored |-> FALSE,
     rows1 |-> {}, rows2 |-> {}, warned |-> FALSE,
     kind |-> "none", escaped |-> FALSE]

\* call: the first or the second call of run_archive_test_with_rollback
ArchInit(call) ==
    [call |-> call, initial_count |-> None, deleted_count |-> None,
     count_after_delete |-> None, count_after_rollback |-> None]

\* t.join() returns: the thread has ended
\* (variant: the orchestrator does not wait for the thread)
TerminalMut(t) == TRUE
Terminal(t) == pc[t] \in {"done", "dead"}

\* the workers that have stored an entry in the results dict of the running
\* scenario, the one dict both closures of the scenario refer to: a reader
\* stores its first read, every other worker stores its outcome after the call
\* it makes behind the barrier, in its try or in its except
ResultsWriters ==
    {t \in Threads :
        \/ /\ t = "t1"
           /\ mainpc \in {"nrr_join", "phantom_rc_join", "phantom_rr_join"}
           /\ loc[t].r1 # None
        \/ /\ t = "t2" \/ mainpc = "ser_join"
           /\ pc[t] \in {"cleanup", "done"}}

(***************************************************************************)
(* Initial state: the table holds NumRows rows.                            *)
(***************************************************************************)
Init ==
    /\ db \in {tb \in [Ids -> InitRows \cup {NoRow}] :
                 /\ \A id \in Ids : tb[id].live <=> id <= NumRows
                 /\ \A id \in 1..(NumRows - 1) : RowRank(tb[id]) <= RowRank(tb[id + 1])}
    /\ base = db
    /\ nextId = NumRows + 1
    /\ sess = [s \in Sessions |-> ClosedSession]
    /\ mainpc = "nrr_setup"
    /\ pc = [t \in Threads |-> "idle"]
    /\ barrier = 0
    /\ loc = [t \in Threads |-> LocInit]
    /\ g = GInit
    /\ arch = ArchInit(1)
    /\ bulk = BulkInit(percentage)
    /\ faults = 0

\* barrier = threading.Barrier(2), fresh locals, t1.start(); t2.start()
StartThreads ==
    /\ barrier' = 0
    /\ loc' = [t \in Threads |-> LocInit]
    /\ pc' = [t \in Threads |-> "start"]

(***************************************************************************)
(* Steps shared by the workers.                                            *)
(***************************************************************************)
\* conn = get_connection(isolation_level=iso), the first line of every worker,
\* outside its try: a connection error ends the thread there
WorkerConnect(t, iso, next) ==
    /\ pc[t] = "start"
    /\ \/ /\ sess' = [sess EXCEPT ![t] = get_connection(iso)]
          /\ pc' = [pc EXCEPT ![t] = next]
          /\ UNCHANGED faults
       \/ /\ CanFault
          /\ faults' = faults + 1
          /\ pc' = [pc EXCEPT ![t] = "dead"]
          /\ UNCHANGED sess
    /\ UNCHANGED <<db, base, bulk, nextId, mainpc, barrier, loc, g, arch>>

\* barrier.wait(): the call
\* (variant: one call counts for two parties)
BarrierArriveMut(t) ==
    /\ pc[t] = "wait"
    /\ barrier' = barrier + 2
    /\ pc' = [pc EXCEPT ![t] = "blocked"]
    /\ UNCHANGED <<db, base, bulk, nextId, sess, mainpc, loc, g, faults, arch>>
BarrierArrive(t) ==
    /\ pc[t] = "wait"
    /\ barrier' = barrier + 1
    /\ pc' = [pc EXCEPT ![t] = "blocked"]
    /\ UNCHANGED <<db, base, bulk, nextId, sess, mainpc, loc, g, faults, arch>>

\* barrier.wait(): the return, once all parties have called
\* (variant: a barrier of one party, released by the first call)
BarrierReleasedMut == barrier >= 1
BarrierReleased == barrier = Parties

BarrierPass(t, next) ==
    /\ pc[t] = "blocked"
    /\ BarrierReleased
    /\ pc' = [pc EXCEPT ![t] = next]
    /\ UNCHANGED <<db, base, bulk, nextId, sess, mainpc, barrier, loc, g, faults, arch>>

\* a store error in a worker's statement: "with conn" rolls back, the worker's
\* except prints, its finally closes the session
\* (variant: the session is closed on the normal path only)
WorkerStatementFailsMut(t) ==
    /\ CanFault
    /\ faults' = faults + 1
    /\ sess' = [sess EXCEPT ![t] = [@ EXCEPT !.st = "idle"]]
    /\ pc' = [pc EXCEPT ![t] = "done"]
WorkerStatementFails(t) ==
    /\ CanFault
    /\ faults' = faults + 1
    /\ sess' = [sess EXCEPT ![t] = ClosedSession]
    /\ pc' = [pc EXCEPT ![t] = "done"]

(***************************************************************************)
(* demo_non_repeatable_read                                                *)
(***************************************************************************)
\* the isolation level tx1_reader asks for
\* (variant: the reader asks for repeatable-read)
NrrReaderIsolationMut == ISOLATION_LEVEL_REPEATABLE_READ
NrrReaderIsolation == ISOLATION_LEVEL_READ_COMMITTED

\* SELECT valeur_fonciere FROM mutations_foncieres WHERE id = mutation_id
SelectValeur(se) == View(se)[g.mutation_id].val

tx1_reader ==
    \/ /\ mainpc = "nrr_join"
       /\ WorkerConnect("t1", NrrReaderIsolation, "read1")
    \/ \* first read
       /\ mainpc = "nrr_join" /\ pc["t1"] = "read1"
       /\ \/ LET se == Begun(sess["t1"]) IN
             /\ sess' = [sess EXCEPT !["t1"] = se]
             /\ loc' = [loc EXCEPT !["t1"].r1 = SelectValeur(se)]
             /\ pc' = [pc EXCEPT !["t1"] = "wait"]
             /\ UNCHANGED faults
          \/ WorkerStatementFails("t1") /\ UNCHANGED loc
       /\ UNCHANGED <<db, base, bulk, nextId, mainpc, barrier, g, arch>>
    \/ mainpc = "nrr_join" /\ BarrierArrive("t1")
    \/ mainpc = "nrr_join" /\ BarrierPass("t1", "read2")
    \/ \* second read, after time.sleep(1)
       /\ mainpc = "nrr_join" /\ pc["t1"] = "read2"
       /\ \/ /\ loc' = [loc EXCEPT !["t1"].r2 = SelectValeur(sess["t1"]),
                                   !["t1"].between = loc["t2"].committed /\ loc["t2"].after1]
             /\ pc' = [pc EXCEPT !["t1"] = "commit"]
             /\ UNCHANGED <<sess, faults>>
          \/ WorkerStatementFails("t1") /\ UNCHANGED loc
       /\ UNCHANGED <<db, base, bulk, nextId, mainpc, barrier, g, arch>>
    \/ \* the exit of "with conn" commits, finally closes
       /\ mainpc = "nrr_join" /\ pc["t1"] = "commit"
       /\ sess' = [sess EXCEPT !["t1"] = ClosedSession]
       /\ pc' = [pc EXCEPT !["t1"] = "done"]
       /\ UNCHANGED <<db, base, bulk, nextId, mainpc, barrier, loc, g, faults, arch>>

tx2_writer ==
    \/ /\ mainpc = "nrr_join"
       /\ WorkerConnect("t2", ISOLATION_LEVEL_READ_COMMITTED, "wait")
    \/ mainpc = "nrr_join" /\ BarrierArrive("t2")
    \/ mainpc = "nrr_join" /\ BarrierPass("t2", "update")
    \/ \* UPDATE mutations_foncieres SET valeur_fonciere = new_value WHERE id = mutation_id
       /\ mainpc = "nrr_join" /\ pc["t2"] = "update"
       /\ \/ LET se == Begun(sess["t2"])
                 id == g.mutation_id IN
             /\ ~LockedByOther("t2", {id})
             /\ sess' = [sess EXCEPT !["t2"] =
                           Written(se, id, [View(se)[id] EXCEPT !.val = new_value(g.initial_val)])]
             /\ pc' = [pc EXCEPT !["t2"] = "commit"]
             /\ UNCHANGED faults
          \/ WorkerStatementFails("t2")
       /\ UNCHANGED <<db, base, bulk, nextId, mainpc, barrier, loc, g, arch>>
    \/ \* the exit of "with conn" commits; results['tx2_wrote']; finally closes
       /\ mainpc = "nrr_join" /\ pc["t2"] = "commit"
       /\ CommitAndClose("t2")
       /\ loc' = [loc EXCEPT !["t2"].committed = TRUE,
                             !["t2"].after1 = loc["t1"].r1 # None]
       /\ pc' = [pc EXCEPT !["t2"] = "done"]
       /\ UNCHANGED <<base, bulk, nextId, mainpc, barrier, g, faults, arch>>

LiveIds == {id \in Ids : db[id].live}

demo_non_repeatable_read ==
    \/ \* conn_setup, get_random_mutation_id, get_mutation_details; the threads start
       /\ mainpc = "nrr_setup"
       /\ \/ \E id \in LiveIds :
                /\ g' = [g EXCEPT !.mutation_id = id, !.initial_val = db[id].val]
                /\ StartThreads
                /\ mainpc' = "nrr_join"
                /\ UNCHANGED faults
          \/ /\ CanFault
             /\ faults' = faults + 1
             /\ mainpc' = "crashed"
             /\ UNCHANGED <<g, pc, barrier, loc>>
       /\ UNCHANGED <<db, base, bulk, nextId, sess, arch>>
    \/ \* t1.join(); t2.join(); the restoring UPDATE on conn_cleanup
       /\ mainpc = "nrr_join"
       /\ \A t \in Threads : Terminal(t)
       /\ \/ /\ AutocommitTo([db EXCEPT ![g.mutation_id].val = g.initial_val])
             /\ mainpc' = "phantom_rc"
             /\ UNCHANGED faults
          \/ \* a store error in the UPDATE is printed and dropped
             /\ CanFault
             /\ faults' = faults + 1
             /\ mainpc' = "phantom_rc"
             /\ UNCHANGED <<db, sess>>
          \/ \* get_connection raises: the program ends
             /\ CanFault
             /\ faults' = faults + 1
             /\ mainpc' = "crashed"
             /\ UNCHANGED <<db, sess>>
       /\ pc' = [t \in Threads |-> "idle"]
       /\ loc' = [t \in Threads |-> LocInit]
       /\ g' = GInit
       /\ UNCHANGED <<base, bulk, nextId, barrier, arch>>

(***************************************************************************)
(* transaction_register_sale(conn, sale), as the inserters call it: the    *)
(* steps of thread t from its call to the end of the thread.               *)
(***************************************************************************)
\* the row of the sale dict
SaleRow(nom) ==
    [live |-> TRUE, val |-> test_value, com |-> test_commune, nom |-> nom,
     date |-> sale_date, cp |-> ""]

\* SELECT AVG(valeur_fonciere) ... WHERE code_commune = c yields NULL over no row
AvgIsNull(se, c) == \A id \in Ids : ~(View(se)[id].live /\ View(se)[id].com = c)

\* the inserter after transaction_register_sale returned None (it caught a
\* psycopg2.Error) or raised (any other error escapes it, "with conn" having
\* rolled back): new_id stays None, finally closes the session and there is
\* no cleanup
InsertGivenUp(t, kind, escaped) ==
    /\ sess' = [sess EXCEPT ![t] = ClosedSession]
    /\ loc' = [loc EXCEPT ![t].kind = kind, ![t].escaped = escaped]
    /\ pc' = [pc EXCEPT ![t] = "done"]

transaction_register_sale(t, nom) ==
    \/ \* SELECT AVG(...); print(f"{avg_price:.2f}") raises TypeError on None
       /\ pc[t] = "avg"
       /\ \/ /\ AvgIsNull(Begun(sess[t]), test_commune)
             /\ InsertGivenUp(t, "TypeError", TRUE)
             /\ UNCHANGED faults
          \/ /\ ~AvgIsNull(Begun(sess[t]), test_commune)
             /\ sess' = [sess EXCEPT ![t] = Begun(sess[t])]
             /\ pc' = [pc EXCEPT ![t] = "insert"]
             /\ UNCHANGED <<loc, faults>>
          \/ \* a store error: the function returns None
             /\ CanFault
             /\ faults' = faults + 1
             /\ InsertGivenUp(t, "other", FALSE)
       /\ UNCHANGED <<db, base, bulk, nextId, mainpc, barrier, g, arch>>
    \/ \* INSERT ... RETURNING id
       /\ pc[t] = "insert"
       /\ \/ /\ sess' = [sess EXCEPT ![t] = Written(sess[t], nextId, SaleRow(nom))]
             /\ loc' = [loc EXCEPT ![t].new_id = nextId]
             /\ nextId' = nextId + 1
             /\ pc' = [pc EXCEPT ![t] = "commit"]
             /\ UNCHANGED faults
          \/ /\ CanFault
             /\ faults' = faults + 1
             /\ InsertGivenUp(t, "other", FALSE)
             /\ UNCHANGED nextId
       /\ UNCHANGED <<db, base, bulk, mainpc, barrier, g, arch>>
    \/ \* return new_id leaves "with conn": commit; finally of the inserter closes
       /\ pc[t] = "commit"
       /\ CommitAndClose(t)
       /\ loc' = [loc EXCEPT ![t].committed = TRUE,
                             ![t].after1 = loc["t1"].r1 # None]
       /\ pc' = [pc EXCEPT ![t] = "cleanup"]
       /\ UNCHANGED <<base, bulk, nextId, mainpc, barrier, g, faults, arch>>

(***************************************************************************)
(* demo_phantom_read                                                       *)
(***************************************************************************)
\* SELECT COUNT(*) ... WHERE code_commune = test_commune AND valeur_fonciere > test_value - 1
CountExpensive(se) ==
    Cardinality({id \in Ids : /\ View(se)[id].live
                              /\ View(se)[id].com = test_commune
                              /\ View(se)[id].val > test_value - 1})

\* the isolation level tx1_reader_rr asks for
\* (variant: the reader asks for read-committed, as tx1_reader_rc does)
PhantomRrIsolationMut == ISOLATION_LEVEL_READ_COMMITTED
PhantomRrIsolation == ISOLATION_LEVEL_REPEATABLE_READ

\* the two readers differ in the isolation level only
PhantomReader(iso) ==
    \/ WorkerConnect("t1", iso, "read1")
    \/ \* first count
       /\ pc["t1"] = "read1"
       /\ \/ LET se == Begun(sess["t1"]) IN
             /\ sess' = [sess EXCEPT !["t1"] = se]
             /\ loc' = [loc EXCEPT !["t1"].r1 = CountExpensive(se)]
             /\ pc' = [pc EXCEPT !["t1"] = "wait"]
             /\ UNCHANGED faults
          \/ WorkerStatementFails("t1") /\ UNCHANGED loc
       /\ UNCHANGED <<db, base, bulk, nextId, mainpc, barrier, g, arch>>
    \/ BarrierArrive("t1")
    \/ BarrierPass("t1", "read2")
    \/ \* second count, after time.sleep(1)
       /\ pc["t1"] = "read2"
       /\ \/ /\ loc' = [loc EXCEPT !["t1"].r2 = CountExpensive(sess["t1"]),
                                   !["t1"].between = loc["t2"].committed /\ loc["t2"].after1]
             /\ pc' = [pc EXCEPT !["t1"] = "commit"]
             /\ UNCHANGED <<sess, faults>>
          \/ WorkerStatementFails("t1") /\ UNCHANGED loc
       /\ UNCHANGED <<db, base, bulk, nextId, mainpc, barrier, g, arch>>
    \/ \* the exit of "with conn" commits, finally closes
       /\ pc["t1"] = "commit"
       /\ sess' = [sess EXCEPT !["t1"] = ClosedSession]
       /\ pc' = [pc EXCEPT !["t1"] = "done"]
       /\ UNCHANGED <<db, base, bulk, nextId, mainpc, barrier, loc, g, faults, arch>>

\* the table after DELETE FROM mutations_foncieres WHERE id = new_id
\* (variant: the DELETE selects by the marker of the sale, its commune and value)
PhantomDeletedMut(tb, new_id) ==
    [id \in Ids |->
        IF tb[id].live /\ tb[id].com = test_commune /\ tb[id].val = test_value
        THEN NoRow ELSE tb[id]]
PhantomDeleted(tb, new_id) == [tb EXCEPT ![new_id] = NoRow]

\* the two inserters differ in the nom_commune of the sale only
PhantomInserter(nom) ==
    \/ WorkerConnect("t2", ISOLATION_LEVEL_READ_COMMITTED, "wait")
    \/ BarrierArrive("t2")
    \/ BarrierPass("t2", "avg")
    \/ transaction_register_sale("t2", nom)
    \/ \* finally: if new_id: DELETE FROM mutations_foncieres WHERE id = new_id
       \* on conn_cleanup, an autocommit session of the inserter's thread
       /\ pc["t2"] = "cleanup"
       /\ \/ /\ AutocommitTo(PhantomDeleted(db, loc["t2"].new_id))
             /\ loc' = [loc EXCEPT !["t2"].cleaned = TRUE]
             /\ pc' = [pc EXCEPT !["t2"] = "done"]
             /\ UNCHANGED faults
          \/ \* a store error in the DELETE is printed and dropped
             /\ CanFault
             /\ faults' = faults + 1
             /\ pc' = [pc EXCEPT !["t2"] = "done"]
             /\ UNCHANGED <<db, sess, loc>>
          \/ \* get_connection raises inside finally: the thread ends there
             /\ CanFault
             /\ faults' = faults + 1
             /\ pc' = [pc EXCEPT !["t2"] = "dead"]
             /\ UNCHANGED <<db, sess, loc>>
       /\ UNCHANGED <<base, bulk, nextId, mainpc, barrier, g, arch>>

tx1_reader_rc == mainpc = "phantom_rc_join" /\ PhantomReader(ISOLATION_LEVEL_READ_COMMITTED)
tx2_inserter_rc == mainpc = "phantom_rc_join" /\ PhantomInserter("Phantom Test")
tx1_reader_rr == mainpc = "phantom_rr_join" /\ PhantomReader(PhantomRrIsolation)
tx2_inserter_rr == mainpc = "phantom_rr_join" /\ PhantomInserter("Phantom Test RR")

demo_phantom_read ==
    \/ /\ mainpc = "phantom_rc"
       /\ StartThreads
       /\ mainpc' = "phantom_rc_join"
       /\ UNCHANGED <<db, base, bulk, nextId, sess, g, faults, arch>>
    \/ \* t1_rc.join(); t2_rc.join(); then the repeatable-read test starts
       /\ mainpc = "phantom_rc_join"
       /\ \A t \in Threads : Terminal(t)
       /\ StartThreads
       /\ mainpc' = "phantom_rr_join"
       /\ UNCHANGED <<db, base, bulk, nextId, sess, g, faults, arch>>
    \/ \* t1_rr.join(); t2_rr.join()
       /\ mainpc = "phantom_rr_join"
       /\ \A t \in Threads : Terminal(t)
       /\ mainpc' = "ser_setup"
       /\ pc' = [t \in Threads |-> "idle"]
       /\ loc' = [t \in Threads |-> LocInit]
       /\ UNCHANGED <<db, base, bulk, nextId, sess, barrier, g, faults, arch>>

(***************************************************************************)
(* transaction_update_commune_name(conn, code_commune, old_name, new_name) *)
(* as the updaters call it: the steps of thread t from its call to the end *)
(* of the thread.                                                          *)
(***************************************************************************)
\* the rows of UPDATE ... WHERE code_commune = c AND nom_commune = old_name
RowsNamed(se, c, old_name) ==
    {id \in Ids : /\ View(se)[id].live
                  /\ View(se)[id].com = c
                  /\ View(se)[id].nom = old_name}

\* session se after UPDATE ... SET nom_commune = new_name on the rows ws
Renamed(se, ws, new_name) ==
    [se EXCEPT !.wset = @ \cup ws,
               !.wrows = [id \in Ids |->
                            IF id \in ws THEN [View(se)[id] EXCEPT !.nom = new_name]
                            ELSE @[id]]]

\* the function caught psycopg2.Error ("with conn" rolled back) and returned
\* False; the updater stores the result, rolls back and closes
UpdaterFailed(t, kind) ==
    /\ sess' = [sess EXCEPT ![t] = ClosedSession]
    /\ loc' = [loc EXCEPT ![t].success = FALSE, ![t].kind = kind]
    /\ pc' = [pc EXCEPT ![t] = "done"]

\* whether the UPDATE of the rows ws raises SerializationFailure: one of them
\* was changed by a transaction that committed after the snapshot
SerializationFailure(se, ws) == ws \cap se.stale # {}

transaction_update_commune_name(t, old_name, new_name) ==
    \/ \* SELECT nom_commune ... LIMIT 1: the first statement of the transaction
       /\ pc[t] = "select"
       /\ \/ /\ sess' = [sess EXCEPT ![t] = Begun(sess[t])]
             /\ pc' = [pc EXCEPT ![t] = "update"]
             /\ UNCHANGED <<loc, faults>>
          \/ /\ CanFault
             /\ faults' = faults + 1
             /\ UpdaterFailed(t, "other")
       /\ UNCHANGED <<db, base, bulk, nextId, mainpc, barrier, g, arch>>
    \/ \* UPDATE ... SET nom_commune = new_name WHERE code_commune AND nom_commune = old_name
       /\ pc[t] = "update"
       /\ LET ws == RowsNamed(sess[t], test_code_commune, old_name) IN
          \/ /\ ~LockedByOther(t, ws)
             /\ ~SerializationFailure(sess[t], ws)
             /\ sess' = [sess EXCEPT ![t] = Renamed(sess[t], ws, new_name)]
             /\ pc' = [pc EXCEPT ![t] = "commit"]
             /\ UNCHANGED <<loc, faults>>
          \/ /\ ~LockedByOther(t, ws)
             /\ SerializationFailure(sess[t], ws)
             /\ UpdaterFailed(t, "serialization")
             /\ UNCHANGED faults
          \/ /\ CanFault
             /\ faults' = faults + 1
             /\ UpdaterFailed(t, "other")
       /\ UNCHANGED <<db, base, bulk, nextId, mainpc, barrier, g, arch>>
    \/ \* return True leaves "with conn": commit; results; finally closes
       /\ pc[t] = "commit"
       /\ CommitAndClose(t)
       /\ loc' = [loc EXCEPT ![t].success = TRUE,
                             ![t].peer_begun =
                                 \A o \in Threads \ {t} : sess[o].st = "intrans"]
       /\ pc' = [pc EXCEPT ![t] = "done"]
       /\ UNCHANGED <<base, bulk, nextId, mainpc, barrier, g, arch, faults>>

(***************************************************************************)
(* demo_serialization_failure                                              *)
(***************************************************************************)
\* tx2_updater differs from tx1_updater in its time.sleep(0.3) after the barrier
\* and in the new name
Updater(t, new_name) ==
    \/ WorkerConnect(t, ISOLATION_LEVEL_REPEATABLE_READ, "wait")
    \/ BarrierArrive(t)
    \/ BarrierPass(t, "select")
    \/ transaction_update_commune_name(t, g.original_name, new_name)

tx1_updater == mainpc = "ser_join" /\ Updater("t1", "TX1")
tx2_updater == mainpc = "ser_join" /\ Updater("t2", "TX2")

CommuneIds(c) == {id \in Ids : db[id].live /\ db[id].com = c}

\* if results['tx1_success'] != results['tx2_success']: the orchestrator prints
\* that one transaction succeeded and the other was rolled back by the conflict
ExpectedOutcomeDeclared == loc["t1"].success # loc["t2"].success

demo_serialization_failure ==
    \/ \* conn_setup: SELECT nom_commune ... LIMIT 1; the threads start
       /\ mainpc = "ser_setup"
       /\ \/ \E id \in CommuneIds(test_code_commune) :
                /\ g' = [g EXCEPT !.original_name = db[id].nom]
                /\ StartThreads
                /\ mainpc' = "ser_join"
                /\ UNCHANGED faults
          \/ \* no row: fetchone()[0] raises, the function returns
             /\ CommuneIds(test_code_commune) = {}
             /\ mainpc' = "bulk_setup"
             /\ UNCHANGED <<g, pc, barrier, loc, faults>>
          \/ \* a store error in the SELECT: the function returns
             /\ CanFault
             /\ faults' = faults + 1
             /\ mainpc' = "bulk_setup"
             /\ UNCHANGED <<g, pc, barrier, loc>>
          \/ \* get_connection raises: the program ends
             /\ CanFault
             /\ faults' = faults + 1
             /\ mainpc' = "crashed"
             /\ UNCHANGED <<g, pc, barrier, loc>>
       /\ UNCHANGED <<db, base, bulk, nextId, sess, arch>>
    \/ \* t1.join(); t2.join(); the result is printed; the restoring UPDATE
       /\ mainpc = "ser_join"
       /\ \A t \in Threads : Terminal(t)
       /\ \/ /\ AutocommitTo([id \in Ids |->
                                IF id \in CommuneIds(test_code_commune)
                                THEN [db[id] EXCEPT !.nom = g.original_name]
                                ELSE db[id]])
             /\ mainpc' = "bulk_setup"
             /\ UNCHANGED faults
          \/ \* a store error in the UPDATE is printed and dropped
             /\ CanFault
             /\ faults' = faults + 1
             /\ mainpc' = "bulk_setup"
             /\ UNCHANGED <<db, sess>>
          \/ \* get_connection raises: the program ends
             /\ CanFault
             /\ faults' = faults + 1
             /\ mainpc' = "crashed"
             /\ UNCHANGED <<db, sess>>
       /\ pc' = [t \in Threads |-> "idle"]
       /\ loc' = [t \in Threads |-> LocInit]
       /\ g' = GInit
       /\ UNCHANGED <<base, bulk, nextId, barrier, arch>>

(***************************************************************************)
(* transaction_bulk_price_adjustment and the bulk price adjustment test of *)
(* the main block, on the main thread's session.                           *)
(***************************************************************************)
\* n / d rounded to the nearest integer, halves away from zero
RoundDiv(n, d) ==
    LET an == IF n < 0 THEN -n ELSE n
        ad == IF d < 0 THEN -d ELSE d
        q == (2 * an + ad) \div (2 * ad)
    IN IF (n < 0) = (d < 0) THEN q ELSE -q

\* adjustment_factor = 1 + (percentage_change / 100.0)
adjustment_factor(p) == Scale + p
\* rollback_factor = 1.0 / (1 + percentage / 100.0)
rollback_factor(p) == RoundDiv(Scale * Scale, adjustment_factor(p))
\* rollback_percentage = (rollback_factor - 1) * 100.0
rollback_percentage(p) == rollback_factor(p) - Scale

\* SET valeur_fonciere = valeur_fonciere * adjustment_factor
Adjusted(v, f) == RoundDiv(v * f, Scale)

\* the rows of ... WHERE code_postal = test_postal_code
PostalRows(tb) == {id \in Ids : tb[id].live /\ tb[id].cp = test_postal_code}
\* ... AND valeur_fonciere IS NOT NULL AND valeur_fonciere > 0
AdjustableRows(se) == {id \in PostalRows(View(se)) : View(se)[id].val > 0}

RECURSIVE SumVal(_, _)
SumVal(tb, ids) ==
    IF ids = {} THEN 0
    ELSE LET id == CHOOSE x \in ids : TRUE IN tb[id].val + SumVal(tb, ids \ {id})

\* SELECT COALESCE(AVG(valeur_fonciere), 0.0) ... WHERE code_postal = test_postal_code,
\* in hundredths
AvgPrice(tb) ==
    IF PostalRows(tb) = {} THEN 0
    ELSE RoundDiv(100 * SumVal(tb, PostalRows(tb)), Cardinality(PostalRows(tb)))

\* SELECT MIN(valeur_fonciere) ...; if min_val <= 0: print the warning
MinIsNotPositive(tb) == \E id \in PostalRows(tb) : tb[id].val <= 0

\* abs(restored_avg_price - initial_avg_price) / initial_avg_price < 0.001
PriceRestored(initial, restored) ==
    /\ initial > 0
    /\ 1000 * (IF restored < initial THEN initial - restored ELSE restored - initial)
         < initial

\* session se after the UPDATE of the rows ws by the factor f
AdjustedRows(se, ws, f) ==
    [se EXCEPT !.wset = @ \cup ws,
               !.wrows = [id \in Ids |->
                            IF id \in ws
                            THEN [View(se)[id] EXCEPT !.val = Adjusted(@, f)]
                            ELSE @[id]]]

\* the function caught psycopg2.Error ("with conn" rolled back) and returns -1
\* (variant: the error is caught inside "with conn", whose exit then commits)
BulkFailedMut ==
    /\ CanFault
    /\ faults' = faults + 1
    /\ sess' = [sess EXCEPT !["main"] = get_connection(@.iso)]
    /\ bulk' = [bulk EXCEPT !.ret = -1, !.kind = "other", !.escaped = FALSE]
    /\ mainpc' = "bulk_return"
    /\ db' = Committed(sess["main"])
BulkFailed ==
    /\ CanFault
    /\ faults' = faults + 1
    /\ sess' = [sess EXCEPT !["main"] = get_connection(@.iso)]
    /\ bulk' = [bulk EXCEPT !.ret = -1, !.kind = "other", !.escaped = FALSE]
    /\ mainpc' = "bulk_return"
    /\ UNCHANGED db

transaction_bulk_price_adjustment ==
    \/ \* the UPDATE, the first statement of the transaction; updated_count
       /\ mainpc = "bulk_update"
       /\ \/ LET se == Begun(sess["main"])
                 ws == AdjustableRows(se)
                 f == adjustment_factor(bulk.percentage_change) IN
             /\ sess' = [sess EXCEPT !["main"] = AdjustedRows(se, ws, f)]
             /\ bulk' = IF bulk.call = 1
                        THEN [bulk EXCEPT !.rows1 = ws, !.ret = Cardinality(ws)]
                        ELSE [bulk EXCEPT !.rows2 = ws, !.ret = Cardinality(ws)]
             /\ mainpc' = "bulk_minmax"
             /\ UNCHANGED <<db, faults>>
          \/ BulkFailed
       /\ UNCHANGED <<base, nextId, pc, barrier, loc, g, arch>>
    \/ \* if updated_count > 0: SELECT MIN, MAX and the warning; return
       \* updated_count leaves "with conn": commit
       /\ mainpc = "bulk_minmax"
       /\ \/ /\ bulk' = [bulk EXCEPT !.warned =
                           bulk.ret > 0 /\ MinIsNotPositive(View(sess["main"]))]
             /\ db' = Committed(sess["main"])
             /\ sess' = [sess EXCEPT !["main"] = get_connection(@.iso)]
             /\ mainpc' = "bulk_return"
             /\ UNCHANGED faults
          \/ bulk.ret > 0 /\ BulkFailed
       /\ UNCHANGED <<base, nextId, pc, barrier, loc, g, arch>>

main_bulk_price_adjustment ==
    \/ \* conn_setup: the initial average; conn_update = get_connection(...)
       /\ mainpc = "bulk_setup"
       /\ \/ /\ bulk' = [bulk EXCEPT !.initial_avg_price = AvgPrice(db)]
             /\ IF AvgPrice(db) > 0
                THEN /\ sess' = [sess EXCEPT !["main"] =
                                   get_connection(ISOLATION_LEVEL_READ_COMMITTED)]
                     /\ mainpc' = "bulk_update"
                ELSE \* the update is skipped, the unused connection closed
                     /\ mainpc' = "arch_open"
                     /\ UNCHANGED sess
             /\ UNCHANGED faults
          \/ \* an error in the SELECT: initial_avg_price = 0.0, the update is skipped
             /\ CanFault
             /\ faults' = faults + 1
             /\ mainpc' = "arch_open"
             /\ UNCHANGED <<sess, bulk>>
          \/ \* get_connection raises: the program ends
             /\ CanFault
             /\ faults' = faults + 1
             /\ mainpc' = "crashed"
             /\ UNCHANGED <<sess, bulk>>
       /\ UNCHANGED <<db, base, nextId, pc, barrier, loc, g, arch>>
    \/ transaction_bulk_price_adjustment
    \/ \* the first call returned: commit, the check after the commit, close; if
       \* updated_count > 0 the rollback call on conn_rollback follows
       /\ mainpc = "bulk_return" /\ bulk.call = 1
       /\ \/ /\ IF bulk.ret > 0 /\ adjustment_factor(bulk.percentage) # 0
                THEN /\ sess' = [sess EXCEPT !["main"] =
                                   get_connection(ISOLATION_LEVEL_READ_COMMITTED)]
                     /\ bulk' = [bulk EXCEPT
                                   !.updated_count = bulk.ret,
                                   !.call = 2,
                                   !.percentage_change = rollback_percentage(bulk.percentage)]
                     /\ mainpc' = "bulk_update"
                ELSE \* nothing to roll back, or 1.0 / 0 raised ZeroDivisionError,
                     \* which is printed and dropped
                     /\ sess' = [sess EXCEPT !["main"] = ClosedSession]
                     /\ bulk' = [bulk EXCEPT !.updated_count = bulk.ret]
                     /\ mainpc' = "arch_open"
             /\ UNCHANGED faults
          \/ \* conn_rollback = get_connection(...) raises: the program ends
             /\ bulk.ret > 0
             /\ CanFault
             /\ faults' = faults + 1
             /\ sess' = [sess EXCEPT !["main"] = ClosedSession]
             /\ mainpc' = "crashed"
             /\ UNCHANGED bulk
       /\ UNCHANGED <<db, base, nextId, pc, barrier, loc, g, arch>>
    \/ \* the second call returned: commit and the final check, or rollback; close
       /\ mainpc = "bulk_return" /\ bulk.call = 2
       /\ \/ /\ bulk' = IF bulk.ret >= 0
                        THEN [bulk EXCEPT
                                !.restored_avg_price = AvgPrice(db),
                                !.final_checked = TRUE,
                                !.restored = PriceRestored(bulk.initial_avg_price,
                                                           AvgPrice(db))]
                        ELSE bulk
             /\ UNCHANGED faults
          \/ \* an error in the final check is printed and dropped
             /\ bulk.ret >= 0
             /\ CanFault
             /\ faults' = faults + 1
             /\ UNCHANGED bulk
       /\ sess' = [sess EXCEPT !["main"] = ClosedSession]
       /\ mainpc' = "arch_open"
       /\ UNCHANGED <<db, base, nextId, pc, barrier, loc, g, arch>>

(***************************************************************************)
(* transaction_archive_old_mutations and run_archive_test_with_rollback,   *)
(* on the main thread's session.                                           *)
(***************************************************************************)
cutoff_date == IF arch.call = 1 THEN archive_date_test_1 ELSE archive_date_test_2

\* the rows of ... WHERE date_mutation < cutoff, in a table and as session se sees them
OlderIn(tb, cutoff) == {id \in Ids : tb[id].live /\ tb[id].date < cutoff}
RowsOlder(se, cutoff) == OlderIn(View(se), cutoff)

\* session se after DELETE FROM mutations_foncieres on the rows ws
Deleted(se, ws) ==
    [se EXCEPT !.wset = @ \cup ws,
               !.wrows = [id \in Ids |-> IF id \in ws THEN NoRow ELSE @[id]]]

\* a statement of session se raised: the transaction is aborted until rollback
Aborted(se) == [se EXCEPT !.st = "aborted"]

\* the committed table after the conn.rollback() of the finally block
\* (variant: the finally block commits)
ForcedRollbackMut(se) == Committed(se)
ForcedRollback(se) == db

\* the end of the call: the second call follows the first
ArchiveReturns ==
    IF arch.call = 1
    THEN mainpc' = "arch_open" /\ arch' = ArchInit(2)
    ELSE mainpc' = "done" /\ UNCHANGED arch

transaction_archive_old_mutations ==
    /\ mainpc = "arch_delete"
    /\ LET ws == RowsOlder(sess["main"], cutoff_date) IN
       \/ \* COUNT, DELETE; the caller's count inside the transaction
          /\ sess' = [sess EXCEPT !["main"] = Deleted(sess["main"], ws)]
          /\ arch' = [arch EXCEPT
                        !.deleted_count = Cardinality(ws),
                        !.count_after_delete =
                            Cardinality(RowsOlder(Deleted(sess["main"], ws), cutoff_date))]
          /\ UNCHANGED faults
       \/ \* a store error in the COUNT or the DELETE: the function returns -1
          /\ CanFault
          /\ faults' = faults + 1
          /\ sess' = [sess EXCEPT !["main"] = Aborted(sess["main"])]
          /\ arch' = [arch EXCEPT !.deleted_count = -1]
       \/ \* the DELETE succeeds, the caller's count inside the transaction raises
          /\ CanFault
          /\ faults' = faults + 1
          /\ sess' = [sess EXCEPT !["main"] = Aborted(Deleted(sess["main"], ws))]
          /\ arch' = [arch EXCEPT !.deleted_count = Cardinality(ws)]
    /\ mainpc' = "arch_rollback"
    /\ UNCHANGED <<db, base, bulk, nextId, pc, barrier, loc, g>>

run_archive_test_with_rollback ==
    \/ \* get_connection(autocommit=False, READ COMMITTED); the initial count
       /\ mainpc = "arch_open"
       /\ \/ LET se == Begun(get_connection(ISOLATION_LEVEL_READ_COMMITTED))
                 n == Cardinality(RowsOlder(se, cutoff_date)) IN
             /\ sess' = [sess EXCEPT !["main"] = se]
             /\ arch' = [arch EXCEPT !.initial_count = n]
             /\ mainpc' = IF n = 0 THEN "arch_rollback" ELSE "arch_delete"
             /\ UNCHANGED faults
          \/ \* the initial count raises: except, then the finally block
             /\ CanFault
             /\ faults' = faults + 1
             /\ sess' = [sess EXCEPT !["main"] =
                           Aborted(Begun(get_connection(ISOLATION_LEVEL_READ_COMMITTED)))]
             /\ mainpc' = "arch_rollback"
             /\ UNCHANGED arch
          \/ \* get_connection raises: conn is None, there is nothing to roll back
             /\ CanFault
             /\ faults' = faults + 1
             /\ ArchiveReturns
             /\ UNCHANGED sess
       /\ UNCHANGED <<db, base, bulk, nextId, pc, barrier, loc, g>>
    \/ transaction_archive_old_mutations
    \/ \* finally: conn.rollback(), the count after the rollback, conn.close()
       /\ mainpc = "arch_rollback"
       /\ db' = ForcedRollback(sess["main"])
       /\ sess' = [sess EXCEPT !["main"] = ClosedSession]
       /\ \/ /\ arch' = [arch EXCEPT !.count_after_rollback =
                            Cardinality(OlderIn(ForcedRollback(sess["main"]), cutoff_date))]
             /\ mainpc' = "arch_check"
             /\ UNCHANGED faults
          \/ \* the count after the rollback raises, which is printed and dropped
             /\ CanFault
             /\ faults' = faults + 1
             /\ mainpc' = "arch_check"
             /\ UNCHANGED arch
       /\ UNCHANGED <<base, bulk, nextId, pc, barrier, loc, g>>
    \/ \* the function returns
       /\ mainpc = "arch_check"
       /\ ArchiveReturns
       /\ UNCHANGED <<db, base, bulk, nextId, sess, pc, barrier, loc, g, faults>>

Next ==
    \/ demo_non_repeatable_read
    \/ tx1_reader
    \/ tx2_writer
    \/ demo_phantom_read
    \/ tx1_reader_rc
    \/ tx2_inserter_rc
    \/ tx1_reader_rr
    \/ tx2_inserter_rr
    \/ demo_serialization_failure
    \/ tx1_updater
    \/ tx2_updater
    \/ main_bulk_price_adjustment
    \/ run_archive_test_with_rollback

Spec == Init /\ [][Next]_vars

(***************************************************************************)
(* The three demonstrations with their threads scheduled: a thread that    *)
(* can take a step (its statement returns, its barrier is released, the    *)
(* threads it joins have ended) eventually takes one.  The tables are      *)
(* those of Init as far as the demonstrations read them: they read neither *)
(* date_mutation nor code_postal.                                          *)
(***************************************************************************)
DemoRows == {r \in InitRows : r.date >= archive_date_test_1 /\ r.cp = ""}

InitDemos == Init /\ \A id \in Ids : db[id] \in DemoRows \cup {NoRow}

MainThread ==
    \/ demo_non_repeatable_read
    \/ demo_phantom_read
    \/ demo_serialization_failure

FirstWorker == tx1_reader \/ tx1_reader_rc \/ tx1_reader_rr \/ tx1_updater

SecondWorker == tx2_writer \/ tx2_inserter_rc \/ tx2_inserter_rr \/ tx2_updater

NextDemos == MainThread \/ FirstWorker \/ SecondWorker

SpecLive ==
    /\ InitDemos /\ [][NextDemos]_vars
    /\ WF_vars(MainThread) /\ WF_vars(FirstWorker) /\ WF_vars(SecondWorker)

(***************************************************************************)
(* transaction_bulk_price_adjustment over its inputs: the bulk price       *)
(* adjustment test of the main block, run for more percentages than the    *)
(* one the main block sets and over tables of rows of test_postal_code.    *)
(***************************************************************************)
Percentages == {Percent(5), Percent(100), Percent(-50), Percent(-100), Percent(-150)}

BulkRows ==
    [live : {TRUE}, val : {0, 100, 300}, com : {"51200"},
     nom : {"A"}, date : {20170601}, cp : {test_postal_code, ""}]

InitBulk ==
    /\ db \in {tb \in [Ids -> BulkRows \cup {NoRow}] :
                 \A id \in Ids : tb[id].live <=> id <= NumRows}
    /\ base = db
    /\ nextId = NumRows + 1
    /\ sess = [s \in Sessions |-> ClosedSession]
    /\ mainpc = "bulk_setup"
    /\ pc = [t \in Threads |-> "idle"]
    /\ barrier = 0
    /\ loc = [t \in Threads |-> LocInit]
    /\ g = GInit
    /\ arch = ArchInit(1)
    /\ bulk \in {BulkInit(p) : p \in Percentages}
    /\ faults = 0

NextBulk == main_bulk_price_adjustment

SpecBulk == InitBulk /\ [][NextBulk]_vars

(***************************************************************************)
(* Observations the claims are stated over.                                *)
(***************************************************************************)
\* the reader has made its second read, and the other party's commit fell
\* between its two reads
ReadTwiceAroundCommit(scenario) ==
    /\ mainpc = scenario
    /\ loc["t1"].r2 # None
    /\ loc["t1"].between

\* both threads of the serialization scenario have ended, no error but the
\* store's own conflict was raised, and the restore has not run yet
UpdatersEnded ==
    /\ mainpc = "ser_join"
    /\ \A t \in Threads : pc[t] = "done"

\* the three demonstrations have run back-to-back and have returned
DemosReturned == mainpc = "bulk_setup"

\* count of the rows matching the phantom predicate in a table
ExpensiveIn(tb) ==
    Cardinality({id \in Ids : /\ tb[id].live
                              /\ tb[id].com = test_commune
                              /\ tb[id].val > test_value - 1})

\* positions a worker can only be in after its barrier.wait() returned
PastBarrier == {"read2", "update", "avg", "insert", "select", "commit", "cleanup"}

(***************************************************************************)
(* C1.  In the serialization-failure scenario every execution ends with    *)
(* exactly one of the two updaters committed and the other failed with a   *)
(* serialization conflict.  Stated for the executions in which no          *)
(* connection or statement error is raised.  Violated: tx1_updater can     *)
(* commit before the first statement of tx2_updater takes its snapshot,    *)
(* and then tx2_updater finds no row named old_name and commits too.       *)
(***************************************************************************)
C1_ExactlyOneUpdaterCommits ==
    (UpdatersEnded /\ faults = 0) =>
        \E w \in Threads : \E l \in Threads \ {w} :
            /\ loc[w].success
            /\ ~loc[l].success
            /\ loc[l].kind = "serialization"

(***************************************************************************)
(* C2.  Phantom read at read-committed: whenever the inserter commits its  *)
(* row between the reader's two counts, the second count is the first      *)
(* plus one.  Violated: the inserter's own finally deletes the row, which  *)
(* can happen before the second count.                                     *)
(***************************************************************************)
C2_PhantomCountedAtReadCommitted ==
    ReadTwiceAroundCommit("phantom_rc_join") => loc["t1"].r2 = loc["t1"].r1 + 1

(***************************************************************************)
(* C3.  Non-repeatable read at read-committed: for a record of initial     *)
(* value V, whenever the writer commits V + 10000 between the reader's two *)
(* reads, the first read is V, the second read is V + 10000 and the two    *)
(* differ.                                                                 *)
(***************************************************************************)
C3_SecondReadSeesWriterCommit ==
    ReadTwiceAroundCommit("nrr_join") =>
        /\ loc["t1"].r1 = g.initial_val
        /\ loc["t1"].r2 = g.initial_val + 10000
        /\ loc["t1"].r1 # loc["t1"].r2

\* the writer's commit fell between the two reads and the second read saw it
C3_Witness ==
    /\ ReadTwiceAroundCommit("nrr_join")
    /\ loc["t1"].r2 = loc["t1"].r1 + 10000

(***************************************************************************)
(* C4.  If one party fails before it reaches its barrier wait, the other   *)
(* party does not block forever at the barrier: a missed rendezvous never  *)
(* ends as a deadlock.  Stated as: whenever a party waits at a barrier its *)
(* partner will never reach, the program can still take a step.  Violated: *)
(* barrier.wait() has no timeout, the waiting thread and the main thread's *)
(* join wait forever.                                                      *)
(***************************************************************************)
C4_MissedRendezvousIsNoDeadlock ==
    (\E t \in Threads : \E o \in Threads \ {t} :
        pc[t] = "blocked" /\ Terminal(o) /\ barrier < Parties)
    => ENABLED Next

(***************************************************************************)
(* C5.  After the three demonstrations every record they touched equals    *)
(* its state before the run: each valeur_fonciere, the count of rows       *)
(* matching the phantom predicate, and the nom_commune of every row of the *)
(* serialization scenario's commune.  Stated for the runs in which no      *)
(* error is raised.  Violated: the restoring UPDATE of                     *)
(* demo_serialization_failure renames every row of the commune to the one  *)
(* sampled name.                                                           *)
(***************************************************************************)
C5_DemosRestoreTheTable ==
    (DemosReturned /\ faults = 0) =>
        /\ \A id \in Ids : base[id].live => db[id].val = base[id].val
        /\ ExpensiveIn(db) = ExpensiveIn(base)
        /\ \A id \in Ids :
              (base[id].live /\ base[id].com = test_code_commune)
              => db[id].nom = base[id].nom

(***************************************************************************)
(* C6.  No restoring or cleanup statement executes while a worker of the   *)
(* scenario still has an open transaction.  Violated: the DELETE of the    *)
(* phantom row runs in the inserter's thread, while the reader's           *)
(* transaction is open.                                                    *)
(***************************************************************************)
C6_CleanupAfterAllWorkersEnded ==
    \A t \in Threads :
        (loc[t].cleaned /\ pc[t] = "done")
        => \A o \in Threads : sess[o].st # "intrans"

(***************************************************************************)
(* C7.  For the barrier of two parties: no party is past its wait() while  *)
(* fewer than two parties have called wait(), and once both have called,   *)
(* every party still in wait() can return.                                 *)
(***************************************************************************)
C7_BarrierReleasesAllOrNone ==
    /\ \A t \in Threads :
          (pc[t] \in PastBarrier) => barrier = Cardinality(Threads)
    /\ barrier = Cardinality(Threads) =>
          \A t \in Threads :
              pc[t] = "blocked" => ENABLED BarrierPass(t, "done")

\* both parties have called wait(): one has returned, the other can
C7_Witness ==
    /\ barrier = 2
    /\ \E t \in Threads : \E o \in Threads \ {t} :
          pc[t] = "blocked" /\ pc[o] \in PastBarrier

(***************************************************************************)
(* C8.  Phantom read with the reader at repeatable-read: when the inserter *)
(* commits its row between the reader's two counts, the second count       *)
(* equals the first.                                                       *)
(***************************************************************************)
C8_NoPhantomAtRepeatableRead ==
    ReadTwiceAroundCommit("phantom_rr_join") => loc["t1"].r2 = loc["t1"].r1

\* the inserted row is committed and in the table, and the reader counted twice
C8_Witness ==
    /\ ReadTwiceAroundCommit("phantom_rr_join")
    /\ ExpensiveIn(db) = loc["t1"].r1 + 1

(***************************************************************************)
(* C9.  As claimed: the non-repeatable-read scenario runs with the reader  *)
(* at repeatable-read or serializable, and then under the writer's commit  *)
(* between the two reads the second read equals the first read V.          *)
(* Violated: tx1_reader always asks for read-committed.                    *)
(***************************************************************************)
C9_ReaderRunsAtRepeatableRead ==
    ReadTwiceAroundCommit("nrr_join") =>
        /\ sess["t1"].iso \in {"RR", "SERIALIZABLE"}
        /\ loc["t1"].r2 = loc["t1"].r1
        /\ loc["t1"].r1 = g.initial_val

(***************************************************************************)
(* C9, amended.  The reader of the non-repeatable-read scenario runs at    *)
(* read-committed only, and under the writer's commit between the two      *)
(* reads its second read differs from its first: the anomaly predicate is  *)
(* true.                                                                   *)
(***************************************************************************)
C9_ReaderRunsAtReadCommittedOnly ==
    /\ (mainpc = "nrr_join" /\ sess["t1"].st # "closed")
          => sess["t1"].iso = ISOLATION_LEVEL_READ_COMMITTED
    /\ ReadTwiceAroundCommit("nrr_join") => loc["t1"].r2 # loc["t1"].r1

\* the read-committed reader read twice around the writer's commit
C9_Witness ==
    /\ ReadTwiceAroundCommit("nrr_join")
    /\ sess["t1"].iso = ISOLATION_LEVEL_READ_COMMITTED
    /\ loc["t1"].r1 = g.initial_val

(***************************************************************************)
(* C10.  For each cutoff date, the count of rows older than the cutoff     *)
(* that run_archive_test_with_rollback measures before the archive step    *)
(* equals the count it measures after its forced rollback, whether the     *)
(* archive step succeeded, failed or was skipped.                          *)
(***************************************************************************)
C10_CountAfterRollbackIsInitialCount ==
    (arch.initial_count # None /\ arch.count_after_rollback # None)
    => arch.count_after_rollback = arch.initial_count

\* rows were found and deleted, none was left inside the transaction, and the
\* count after the rollback was measured
C10_Witness ==
    /\ arch.initial_count > 0
    /\ arch.deleted_count = arch.initial_count
    /\ arch.count_after_delete = 0
    /\ arch.count_after_rollback # None

\* the name updater t writes
NewNameOf(t) == IF t = "t1" THEN "TX1" ELSE "TX2"

(***************************************************************************)
(* C13.  In the serialization-failure scenario the orchestrator declares   *)
(* the expected outcome (one transaction succeeded, the other was rolled   *)
(* back because of the conflict) only when the failed updater failed with  *)
(* a serialization conflict.  Violated: the declaration compares the two   *)
(* success flags only, and an updater that failed with any other store     *)
(* error has the same flag.                                                *)
(***************************************************************************)
C13_DeclaredOnlyOnSerializationConflict ==
    (mainpc = "ser_join" /\ (\A t \in Threads : pc[t] = "done")
     /\ ExpectedOutcomeDeclared)
    => \A t \in Threads : ~loc[t].success => loc[t].kind = "serialization"

(***************************************************************************)
(* C14.  A restore that fails or leaves the table different from the       *)
(* baseline stops the run: no later scenario starts.  Stated as: whenever  *)
(* the main thread is about to start a later scenario, the table equals    *)
(* the table before the run.  Violated: an error of a restoring statement  *)
(* is printed and dropped, nothing compares the table with its baseline,   *)
(* and the main block calls the next scenario unconditionally.             *)
(***************************************************************************)
C14_NoScenarioAfterBrokenRestore ==
    mainpc \in {"phantom_rc", "ser_setup", "bulk_setup"} => db = base

(***************************************************************************)
(* C15.  On every session opened through get_connection with an isolation  *)
(* level, the level is set when the first statement executes, and it does  *)
(* not change while the session has executed a statement and is open.      *)
(***************************************************************************)
C15_IsolationSetBeforeFirstStatement ==
    [][\A s \in Sessions :
          sess'[s].st \in {"intrans", "aborted"} =>
              /\ sess'[s].iso \in {ISOLATION_LEVEL_READ_COMMITTED,
                                   ISOLATION_LEVEL_REPEATABLE_READ}
              /\ sess[s].st \in {"intrans", "aborted"} => sess'[s].iso = sess[s].iso]_vars

\* an updater's repeatable-read session has executed a statement after the barrier
C15_Witness ==
    /\ mainpc = "ser_join"
    /\ \E t \in Threads :
          /\ sess[t].st = "intrans"
          /\ sess[t].iso = ISOLATION_LEVEL_REPEATABLE_READ
          /\ pc[t] = "commit"

C19_ACommitsFirstWithBOpen ==
    mainpc = "ser_join" =>
        /\ loc["t2"].success => pc["t1"] = "done"
        /\ loc["t1"].success => loc["t1"].peer_begun

(***************************************************************************)
(* C20.  No statement a party issues after its barrier wait executes       *)
(* before the other party's steps before the barrier are complete: the     *)
(* writer's UPDATE and the inserter's INSERT never precede the reader's    *)
(* first read, and no updater executes a statement before both updaters    *)
(* have called wait().                                                     *)
(***************************************************************************)
C20_NoStatementBeforeRendezvous ==
    /\ (mainpc \in {"nrr_join", "phantom_rc_join", "phantom_rr_join"}
        /\ (sess["t2"].st = "intrans" \/ loc["t2"].committed \/ loc["t2"].kind # "none"))
       => (loc["t1"].r1 # None /\ barrier = Parties)
    /\ mainpc = "ser_join" =>
          \A t \in Threads :
              (sess[t].st = "intrans" \/ loc[t].success \/ loc[t].kind # "none")
              => barrier = Parties

\* the writer's UPDATE has executed and is not committed; the reader made its
\* first read before the barrier
C20_Witness ==
    /\ mainpc = "nrr_join"
    /\ sess["t2"].st = "intrans" /\ sess["t2"].wset # {}
    /\ loc["t1"].r1 # None /\ loc["t1"].r2 = None

(***************************************************************************)
(* C11.  Applying transaction_bulk_price_adjustment with factor f to the   *)
(* rows of a postal code and then with factor 1/f, as the main block does  *)
(* through rollback_percentage, updates the same set of rows both times    *)
(* and returns the mean of valeur_fonciere over the postal code to within  *)
(* 0.1% of its value before.  Violated for a factor below zero: the first  *)
(* call commits values that are not positive, which the second call's      *)
(* WHERE valeur_fonciere > 0 leaves out.                                   *)
(***************************************************************************)
C11_RoundTripRestoresTheMean ==
    (mainpc = "arch_open" /\ bulk.call = 2 /\ bulk.final_checked) =>
        /\ bulk.rows2 = bulk.rows1
        /\ PriceRestored(bulk.initial_avg_price, bulk.restored_avg_price)

(***************************************************************************)
(* C12.  transaction_register_sale, transaction_update_commune_name and    *)
(* transaction_bulk_price_adjustment each run in one transaction: a normal *)
(* completion commits the writes; when an error is raised inside, none of  *)
(* the writes persist and the error's kind is surfaced to the caller.      *)
(* Violated in the last part: each function catches psycopg2.Error and     *)
(* returns None, False or -1, whatever the error was.                      *)
(***************************************************************************)
C12_OneTransactionAndKindSurfaced ==
    /\ \A t \in Threads :
          (mainpc \in {"phantom_rc_join", "phantom_rr_join", "ser_join"} /\ pc[t] = "done")
          => /\ loc[t].kind # "none" => loc[t].escaped
             /\ (mainpc = "ser_join" /\ ~loc[t].success)
                   => \A id \in Ids : db[id].nom # NewNameOf(t)
    /\ \A t \in Threads :
          (pc[t] = "cleanup" /\ loc[t].new_id # None) => db[loc[t].new_id].live
    /\ (mainpc = "bulk_return" /\ bulk.kind # "none") => bulk.escaped
    /\ (mainpc = "bulk_return" /\ bulk.ret = -1) => sess["main"].wset = {}

(***************************************************************************)
(* C17.  transaction_bulk_price_adjustment guards against results that are *)
(* not positive: for every percentage_change, those of -100 and less       *)
(* included, it never commits a state in which a row it updated has        *)
(* valeur_fonciere <= 0, and it reports the violation.  Violated in the    *)
(* first part: the function prints the warning and commits.                *)
(***************************************************************************)
C17_NoNonPositiveValueCommitted ==
    (mainpc = "bulk_return" /\ bulk.ret >= 0) =>
        LET ws == IF bulk.call = 1 THEN bulk.rows1 ELSE bulk.rows2 IN
        /\ \A id \in ws : db[id].val > 0
        /\ (\E id \in ws : db[id].val <= 0) => bulk.warned

(***************************************************************************)
(* C21.  After the restore step of demo_serialization_failure every row of *)
(* the test commune has the nom_commune it had before the scenario, the    *)
(* rows whose name differed from the sampled original_name included.       *)
(* Stated over the step in which the restoring UPDATE succeeds; no other   *)
(* part of the program writes nom_commune, so the name before the scenario *)
(* is the name before the run.  Violated: the restoring UPDATE has no      *)
(* condition on nom_commune and renames every row of the commune.          *)
(***************************************************************************)
C21_RestoreKeepsEveryName ==
    [][(mainpc = "ser_join" /\ mainpc' = "bulk_setup" /\ faults' = faults)
       => \A id \in Ids :
             (base[id].live /\ base[id].com = test_code_commune)
             => db'[id].nom = base[id].nom]_vars

\* the positions of the main thread while the threads of a phantom sub-scenario run
PhantomJoins == {"phantom_rc_join", "phantom_rr_join"}

\* a step of a phantom sub-scenario after which a row is gone is the cleanup
\* of the inserter, and the row is the committed row of its sale
RowLeavesThroughCleanupOnly ==
    mainpc \in PhantomJoins =>
        \A id \in Ids :
            (db[id].live /\ ~db'[id].live)
            => (/\ pc["t2"] = "cleanup"
                /\ loc["t2"].committed
                /\ id = loc["t2"].new_id
                /\ db[id] \in {SaleRow("Phantom Test"), SaleRow("Phantom Test RR")})

(***************************************************************************)
(* C22.  In each phantom sub-scenario: when the inserter's INSERT was      *)
(* committed and its cleanup statement raised no error, the inserted row   *)
(* is absent from the store once both threads have ended; a row leaves the *)
(* store only through that cleanup, and the row is the inserted one, which *)
(* did not exist before the scenario; when the INSERT did not commit, no   *)
(* row is deleted.                                                         *)
(***************************************************************************)
C22_CleanupDeletesTheInsertedRowOnly ==
    /\ [](mainpc \in PhantomJoins =>
            /\ (/\ \A t \in Threads : Terminal(t)
                /\ loc["t2"].committed /\ loc["t2"].cleaned)
               => ~db[loc["t2"].new_id].live
            /\ loc["t2"].new_id # None => ~base[loc["t2"].new_id].live)
    /\ [][RowLeavesThroughCleanupOnly]_vars

\* both threads have ended, the inserted row was committed and deleted, and a
\* row of the table before the run that has the sale's commune and value is
\* still in the store
C22_Witness ==
    /\ mainpc \in PhantomJoins
    /\ \A t \in Threads : Terminal(t)
    /\ loc["t2"].committed /\ loc["t2"].cleaned
    /\ ~db[loc["t2"].new_id].live
    /\ \E id \in Ids :
          /\ db[id].live /\ db[id] = base[id]
          /\ db[id].com = test_commune /\ db[id].val = test_value

(***************************************************************************)
(* C23.  In the serialization-failure scenario, when the UPDATE of one     *)
(* updater is rejected with a serialization conflict, only that updater's  *)
(* transaction is rolled back: from then until the restore step no row of  *)
(* the store carries the rejected updater's new name, the other updater    *)
(* has committed, and every row that had the sampled name carries the      *)
(* other updater's new name.                                               *)
(***************************************************************************)
C23_OnlyTheRejectedSideRollsBack ==
    mainpc = "ser_join" =>
        \A t \in Threads : \A o \in Threads \ {t} :
            loc[t].kind = "serialization" =>
                /\ sess[t].st = "closed"
                /\ \A id \in Ids : db[id].nom # NewNameOf(t)
                /\ loc[o].success
                /\ \A id \in Ids :
                      (/\ base[id].live
                       /\ base[id].com = test_code_commune
                       /\ base[id].nom = g.original_name)
                      => db[id].nom = NewNameOf(o)

\* one updater was rejected with a serialization conflict, both threads have
\* ended, and a row carries the other updater's new name
C23_Witness ==
    /\ mainpc = "ser_join"
    /\ \A t \in Threads : pc[t] = "done"
    /\ \E t \in Threads : \E o \in Threads \ {t} :
          /\ loc[t].kind = "serialization"
          /\ \E id \in Ids : db[id].live /\ db[id].nom = NewNameOf(o)

\* the positions of the main thread while a reader thread runs
ReaderJoins == {"nrr_join", "phantom_rc_join", "phantom_rr_join"}

\* a step of the reader: its transaction ends only at the exit of "with conn"
\* after the second read, or because a statement raised; the second read is
\* made in the transaction the first read began, which it leaves as it is
ReaderKeepsItsTransaction ==
    mainpc \in ReaderJoins =>
        /\ (sess["t1"].st = "intrans" /\ sess'["t1"].st # "intrans")
           => \/ pc["t1"] = "commit" /\ loc["t1"].r2 # None
              \/ faults' = faults + 1 /\ pc["t1"] \in {"read1", "read2"}
        /\ (loc["t1"].r2 = None /\ loc'["t1"].r2 # None)
           => /\ loc["t1"].r1 # None
              /\ sess["t1"].st = "intrans"
              /\ sess'["t1"] = sess["t1"]

(***************************************************************************)
(* C24.  In the non-repeatable-read and phantom-read scenarios the         *)
(* reader's two reads execute inside one transaction: from its first read  *)
(* through its barrier wait to its second read the reader's transaction    *)
(* stays open, and it is committed only after the second read.             *)
(***************************************************************************)
C24_BothReadsInOneTransaction ==
    /\ [](mainpc \in ReaderJoins =>
            (pc["t1"] \in {"wait", "blocked", "read2", "commit"}
             => (sess["t1"].st = "intrans" /\ loc["t1"].r1 # None)))
    /\ [][ReaderKeepsItsTransaction]_vars

\* the reader has made both reads, its transaction is still open and the other
\* party has committed between the two reads
C24_Witness ==
    /\ mainpc \in ReaderJoins
    /\ pc["t1"] = "commit" /\ sess["t1"].st = "intrans"
    /\ loc["t1"].r1 # None /\ loc["t1"].r2 # None
    /\ loc["t1"].between

(***************************************************************************)
(* C25.  The two workers of a scenario share no in-memory state but the    *)
(* barrier and read-only configuration: no mutable object is written by    *)
(* one worker and written or read by the other.  Stated for the results    *)
(* dict of the scenario: at most one worker ever stores into it.           *)
(* Violated: both workers of every scenario store their entries into the   *)
(* one results dict of the scenario.  (The sessions are not shared: each   *)
(* worker opens its own and no other thread uses it.)                      *)
(***************************************************************************)
C25_WorkersShareNoMutableObject == Cardinality(ResultsWriters) <= 1

\* the positions of the main thread inside run_archive_test_with_rollback
ArchivePositions == {"arch_open", "arch_delete", "arch_rollback", "arch_check"}

\* a step of run_archive_test_with_rollback: it commits nothing, it ends the
\* transaction of an established session in the finally block only, and it
\* returns only with the session closed
ArchiveEndsByRollbackOnly ==
    mainpc \in ArchivePositions =>
        /\ db' = db
        /\ (sess["main"].st # "closed" /\ sess'["main"].st # sess["main"].st)
           => \/ mainpc = "arch_rollback" /\ sess'["main"].st = "closed"
              \/ mainpc = "arch_delete" /\ sess'["main"].st = "aborted"
        /\ (mainpc' \notin ArchivePositions \/ arch'.call # arch.call)
           => sess["main"].st = "closed"

BulkReturnsItsOutcome ==
    (mainpc \in {"bulk_update", "bulk_minmax"} /\ mainpc' = "bulk_return") =>
        LET ws == IF bulk.call = 1 THEN bulk'.rows1 ELSE bulk'.rows2
            f == adjustment_factor(bulk.percentage_change) IN
        /\ bulk'.ret = -1 <=> faults' = faults + 1
        /\ bulk'.ret = -1 => (db' = db /\ sess'["main"].wset = {})
        /\ bulk'.ret # -1 =>
              /\ bulk'.ret = Cardinality(ws)
              /\ ws = {id \in PostalRows(db) : db[id].val > 0}
              /\ \A id \in Ids :
                    db'[id] = IF id \in ws
                              THEN [db[id] EXCEPT !.val = Adjusted(db[id].val, f)]
                              ELSE db[id]

(***************************************************************************)
(* C27.  transaction_bulk_price_adjustment returns -1 exactly when a store *)
(* error occurred inside it, and then no valeur_fonciere has changed;      *)
(* otherwise it returns the number of rows it updated, which is not        *)
(* negative, and has committed those updates.  The main block, whose       *)
(* percentage is 5.0, applies the inverse adjustment if and only if the    *)
(* forward call returned a count greater than 0.                           *)
(***************************************************************************)
C27_MinusOneOnErrorElseCommittedCount ==
    /\ [](/\ mainpc = "bulk_return" => (bulk.ret = -1 <=> bulk.kind # "none")
          /\ mainpc = "bulk_return" => bulk.ret >= -1
          /\ bulk.call = 2 => bulk.updated_count > 0
          /\ (mainpc = "arch_open" /\ bulk.percentage = percentage
              /\ bulk.updated_count > 0) => bulk.call = 2)
    /\ [][BulkReturnsItsOutcome]_vars

\* the UPDATE of the forward call had updated rows, the statement after it
\* raised, the function returned -1 and the table is as before the call
C27_Witness ==
    /\ mainpc = "bulk_return" /\ bulk.call = 1
    /\ bulk.ret = -1 /\ bulk.kind = "other"
    /\ bulk.rows1 # {}
    /\ db = base

\* the positions of the main thread while the threads of a scenario run
ScenarioJoins == {"nrr_join", "phantom_rc_join", "phantom_rr_join", "ser_join"}

\* both parties of the running scenario have reached their barrier wait: none
\* raised an error before it
BothAtBarrier(scenario) ==
    /\ mainpc = scenario
    /\ \A t \in Threads : pc[t] \in {"wait", "blocked"}

\* both parties have passed the barrier and both threads have ended
BothEndedPastBarrier(scenario) ==
    /\ mainpc = scenario
    /\ barrier = Parties
    /\ \A t \in Threads : Terminal(t)

(***************************************************************************)
(* C28.  In every scenario, if no party raises an error before its barrier *)
(* wait and every store statement eventually returns, then both parties    *)
(* pass the barrier, both threads end, the joins of the orchestrator       *)
(* return and the orchestrator goes on to its restore step (the cleanup of *)
(* a phantom sub-scenario is the last step of the inserter's thread).      *)
(***************************************************************************)
C28_ScenarioRunsToItsRestore ==
    \A scenario \in ScenarioJoins :
        /\ BothAtBarrier(scenario) ~> BothEndedPastBarrier(scenario)
        /\ BothEndedPastBarrier(scenario) ~> (mainpc # scenario)

\* the two updaters met at the barrier, passed it and ended, one of them on
\* the store's conflict error
C28_Witness ==
    /\ BothEndedPastBarrier("ser_join")
    /\ \E t \in Threads : loc[t].kind = "serialization"
    /\ \E t \in Threads : loc[t].success

\* the rows in the store that the inserter of the read-committed sub-scenario
\* inserted
RcPhantomRows == {id \in Ids : db[id].live /\ db[id].nom = "Phantom Test"}

\* a step of demo_phantom_read and its threads: the repeatable-read
\* sub-scenario starts with both threads of the read-committed one ended, and
\* while it runs no row of the read-committed inserter appears
RrStartsAfterRcEnded ==
    /\ (mainpc = "phantom_rc_join" /\ mainpc' = "phantom_rr_join")
       => \A t \in Threads : pc[t] \in {"done", "dead"} /\ sess[t].st = "closed"
    /\ mainpc = "phantom_rr_join"
       => {id \in Ids : db'[id].live /\ db'[id].nom = "Phantom Test"} \subseteq RcPhantomRows

(***************************************************************************)
(* C29.  In demo_phantom_read the repeatable-read sub-scenario starts only *)
(* after both threads of the read-committed sub-scenario have ended and    *)
(* the cleanup of the read-committed phantom row has finished; when that   *)
(* cleanup succeeded the row is not in the store from then on, and the     *)
(* first count of the repeatable-read reader is the count of the rows that *)
(* matched before the run.                                                 *)
(***************************************************************************)
C29_RrReaderNeverCountsTheRcRow ==
    /\ []((mainpc = "phantom_rc_join" /\ pc["t2"] \in {"done", "dead"}
           /\ loc["t2"].cleaned) => RcPhantomRows = {})
    /\ []((mainpc = "phantom_rr_join" /\ loc["t1"].r1 # None /\ RcPhantomRows = {})
          => loc["t1"].r1 = ExpensiveIn(base))
    /\ [][RrStartsAfterRcEnded]_vars

\* the read-committed inserter committed its row and deleted it, and the
\* repeatable-read reader has made its first count
C29_Witness ==
    /\ mainpc = "phantom_rr_join"
    /\ pc["t1"] = "wait" /\ loc["t1"].r1 = ExpensiveIn(base)
    /\ nextId = NumRows + 2
    /\ RcPhantomRows = {}

(***************************************************************************)
(* C30.  In the non-repeatable-read scenario the reader reports the        *)
(* anomaly (its two reads differ) only if the writer's update was          *)
(* committed between the two reads; if the writer failed, rolled back or   *)
(* committed only after the second read, the two reads are equal.          *)
(***************************************************************************)
C30_AnomalyOnlyByCommitBetweenReads ==
    (mainpc = "nrr_join" /\ loc["t1"].r2 # None) =>
        /\ loc["t1"].r1 # loc["t1"].r2
           => (loc["t2"].committed /\ loc["t2"].after1 /\ loc["t1"].between)
        /\ (~loc["t2"].committed \/ ~loc["t1"].between)
           => loc["t1"].r1 = loc["t1"].r2

\* the writer's UPDATE raised behind the barrier and was rolled back; the
\* reader has read twice
C30_Witness ==
    /\ mainpc = "nrr_join"
    /\ barrier = Parties
    /\ pc["t2"] = "done" /\ ~loc["t2"].committed
    /\ loc["t1"].r2 # None /\ loc["t1"].r1 = loc["t1"].r2

=============================================================================
